---- MODULE Spec2Model ----
\* Model of bitshares/market.py: the Market class (a base/quote asset pair)
\* with its constructor, ticker, accounttrades, accountopenorders, buy, sell
\* and cancel, the node and the library's other classes being collaborators
\* whose answers are drawn from small sets.
EXTENDS Integers, Sequences, FiniteSets, TLC

VARIABLES
    config,     \* bitshares.config: the default_account entry
    market,     \* the Market object of the last construction
    op,         \* name of the last call
    args,       \* its arguments
    trace,      \* the collaborator calls it made, in order
    error,      \* the exception it raised, "none" when it returned
    result      \* the value it returned

vars == <<config, market, op, args, trace, error, result>>

\* ------------------------------------------------------------------------
\* Python float arithmetic (IEEE-754 binary64, round-half-even), as used by
\* float(amount) * float(price) * 10 ** precision and by int(...).
\* Natural numbers wider than 32-bit integers are little-endian
\* sequences of LimbBits-bit digits without leading zero digits.
\* ------------------------------------------------------------------------
MantissaBits == 53

LimbBits == 13

LimbBase == 2 ^ LimbBits

Limb(x, i) == IF i >= 1 /\ i <= Len(x) THEN x[i] ELSE 0

RECURSIVE NStrip(_)
NStrip(x) ==
    IF x = <<>> THEN <<>>
    ELSE IF x[Len(x)] # 0 THEN x
    ELSE NStrip(SubSeq(x, 1, Len(x) - 1))

RECURSIVE NFromNat(_)
NFromNat(n) ==
    IF n = 0 THEN <<>> ELSE <<n % LimbBase>> \o NFromNat(n \div LimbBase)

RECURSIVE NToNat(_)
NToNat(x) == IF x = <<>> THEN 0 ELSE x[1] + LimbBase * NToNat(Tail(x))

NBitLen(x) ==
    IF x = <<>> THEN 0
    ELSE LimbBits * (Len(x) - 1)
         + (CHOOSE k \in 1..LimbBits :
                2 ^ (k - 1) <= x[Len(x)] /\ x[Len(x)] < 2 ^ k)

\* bit i of x, the least significant bit being bit 1
NBit(x, i) ==
    (Limb(x, ((i - 1) \div LimbBits) + 1) \div (2 ^ ((i - 1) % LimbBits))) % 2

\* digits i.. of x + y + c, s being the sum at digit i
RECURSIVE NAddFrom(_, _, _, _)
NAddDigit(x, y, i, s) ==
    <<s % LimbBase>> \o NAddFrom(x, y, i + 1, s \div LimbBase)

NAddFrom(x, y, i, c) ==
    IF i > Len(x) /\ i > Len(y)
    THEN IF c = 0 THEN <<>> ELSE <<c>>
    ELSE NAddDigit(x, y, i, Limb(x, i) + Limb(y, i) + c)

NAdd(x, y) == NAddFrom(x, y, 1, 0)

\* x - y for x >= y
RECURSIVE NSubFrom(_, _, _, _)
NSubDigit(x, y, i, d) ==
    <<d % LimbBase>> \o NSubFrom(x, y, i + 1, IF d < 0 THEN 1 ELSE 0)

NSubFrom(x, y, i, b) ==
    IF i > Len(x) THEN <<>>
    ELSE NSubDigit(x, y, i, Limb(x, i) - Limb(y, i) - b)

NSub(x, y) == NStrip(NSubFrom(x, y, 1, 0))

RECURSIVE NGeqFrom(_, _, _)
NGeqFrom(x, y, i) ==
    IF i = 0 THEN TRUE
    ELSE IF Limb(x, i) # Limb(y, i) THEN Limb(x, i) > Limb(y, i)
    ELSE NGeqFrom(x, y, i - 1)

NGeq(x, y) == NGeqFrom(x, y, IF Len(x) > Len(y) THEN Len(x) ELSE Len(y))

\* x * 2^k
NShl(x, k) ==
    IF x = <<>> THEN <<>>
    ELSE NStrip([i \in 1..(k \div LimbBits) |-> 0] \o
                [i \in 1..(Len(x) + 1) |->
                    ((Limb(x, i) * (2 ^ (k % LimbBits))) % LimbBase)
                    + ((Limb(x, i - 1) * (2 ^ (k % LimbBits))) \div LimbBase)])

\* x \div 2^(LimbBits * q + s), s < LimbBits
NShrBy(x, q, s) ==
    IF q >= Len(x) THEN <<>>
    ELSE NStrip([i \in 1..(Len(x) - q) |->
                    (Limb(x, q + i) \div (2 ^ s))
                    + (Limb(x, q + i + 1) % (2 ^ s)) * (2 ^ (LimbBits - s))])

\* x \div 2^k
NShr(x, k) == NShrBy(x, k \div LimbBits, k % LimbBits)

RECURSIVE NColumn(_, _, _, _)
NColumn(x, y, k, i) ==
    IF i > Len(x) THEN 0
    ELSE Limb(x, i) * Limb(y, k + 1 - i) + NColumn(x, y, k, i + 1)

RECURSIVE NCarry(_, _, _)
NCarryDigit(cols, i, s) ==
    <<s % LimbBase>> \o NCarry(cols, i + 1, s \div LimbBase)

NCarry(cols, i, c) ==
    IF i > Len(cols) THEN NFromNat(c)
    ELSE NCarryDigit(cols, i, cols[i] + c)

\* schoolbook product: column sums, then one carry pass
NMul(x, y) ==
    IF x = <<>> \/ y = <<>> THEN <<>>
    ELSE NStrip(NCarry([k \in 1..(Len(x) + Len(y) - 1) |-> NColumn(x, y, k, 1)],
                       1, 0))

\* restoring division, one digit v of the dividend at a time, from its bit j
\* down: <<quotient digit, remainder>>; r is the remainder so far, r2 the
\* remainder with bit j of v shifted in
WithBit(qr, w) == <<qr[1] + w, qr[2]>>

RECURSIVE NDivDigit(_, _, _, _)
NDivBit(r2, v, d, j) ==
    IF NGeq(r2, d)
    THEN WithBit(NDivDigit(NSub(r2, d), v, d, j - 1), 2 ^ (j - 1))
    ELSE NDivDigit(r2, v, d, j - 1)

NDivDigit(r, v, d, j) ==
    IF j = 0 THEN <<0, r>>
    ELSE NDivBit(NAdd(NShl(r, 1),
                      IF (v \div (2 ^ (j - 1))) % 2 = 1 THEN <<1>> ELSE <<>>),
                 v, d, j)

\* long division of digits i..Len(n) of n by d: <<quotient digits, remainder>>
NDivJoin(prev, cur) == << <<cur[1]>> \o prev[1], cur[2] >>

NDivStep(prev, v, d) ==
    IF prev[2] = <<>> /\ v = 0
    THEN << <<0>> \o prev[1], <<>> >>
    ELSE NDivJoin(prev, NDivDigit(prev[2], v, d, LimbBits))

RECURSIVE NDivFrom(_, _, _)
NDivFrom(n, d, i) ==
    IF i > Len(n) THEN << <<>>, <<>> >>
    ELSE NDivStep(NDivFrom(n, d, i + 1), n[i], d)

\* 2 * (n \div d), plus 1 when d does not divide n
NDivSticky(qr) == NAdd(NShl(qr[1], 1), IF qr[2] = <<>> THEN <<>> ELSE <<1>>)

NTrailingZeros(x) ==
    (CHOOSE i \in 1..NBitLen(x) :
        NBit(x, i) = 1 /\ \A j \in 1..(i - 1) : NBit(x, j) = 0) - 1

\* a float is mant * 2^exp with mant odd and below 2^MantissaBits, or zero
FShift(m, e, z) == [mant |-> NShr(m, z), exp |-> e + z]

FCanon(m, e) ==
    IF m = <<>> THEN [mant |-> <<>>, exp |-> 0]
    ELSE FShift(m, e, NTrailingZeros(m))

\* m * 2^e rounded to the multiple of 2^(e + k) with quotient q or q + 1,
\* ties to even
FRoundTo(m, e, k, q) ==
    FCanon(IF /\ NBit(m, k) = 1
              /\ \/ \E i \in 1..(k - 1) : NBit(m, i) = 1
                 \/ NBit(q, 1) = 1
           THEN NAdd(q, <<1>>)
           ELSE q,
           e + k)

FRoundBits(m, e, k) ==
    IF k <= 0 THEN FCanon(m, e) ELSE FRoundTo(m, e, k, NShr(m, k))

\* round m * 2^e to MantissaBits significant bits
FRound(m, e) == FRoundBits(m, e, NBitLen(m) - MantissaBits)

\* float(n) for an int n
FFromNat(n) == FCanon(NFromNat(n), 0)

\* x * y
FMul(x, y) == FRound(NMul(x.mant, y.mant), x.exp + y.exp)

\* x / y, the dividend shifted by k bits to give the quotient its
\* MantissaBits + 2 bits
FDivShifted(x, y, k) ==
    FRound(NDivSticky(NDivFrom(NShl(x.mant, k), y.mant, 1)),
           x.exp - k - y.exp - 1)

\* x / y for y # 0, correctly rounded
FDiv(x, y) ==
    IF x.mant = <<>> THEN x
    ELSE FDivShifted(x, y, MantissaBits + 2 + NBitLen(y.mant))

\* int(x) for x >= 0: truncation
FTrunc(x) ==
    IF x.exp >= 0 THEN NToNat(NShl(x.mant, x.exp))
    ELSE NToNat(NShr(x.mant, 0 - x.exp))

RECURSIVE Pow10(_)
Pow10(k) == IF k = 0 THEN 1 ELSE 10 * Pow10(k - 1)

\* ------------------------------------------------------------------------
\* The node's reference data: assets and accounts
\* ------------------------------------------------------------------------
\* symbols as sequences of character codes: "USD", "BTS", "CNY"
USD == <<85, 83, 68>>
BTS == <<66, 84, 83>>
CNY == <<67, 78, 89>>

None == [type |-> "None"]

\* the Asset objects the asset lookup answers with, by symbol
Assets ==
    { [type |-> "Asset", symbol |-> USD, id |-> "1.3.121", precision |-> 4,
       bitasset |-> TRUE],
      [type |-> "Asset", symbol |-> BTS, id |-> "1.3.0", precision |-> 5,
       bitasset |-> FALSE],
      [type |-> "Asset", symbol |-> CNY, id |-> "1.3.113", precision |-> 4,
       bitasset |-> TRUE] }

KnownSymbols == {a.symbol : a \in Assets}

Asset(symbol) == CHOOSE a \in Assets : a.symbol = symbol

AssetIds == {a.id : a \in Assets}

\* the Account objects the account lookup answers with, by name
Accounts ==
    { [name |-> "alice", id |-> "1.2.7"],
      [name |-> "init0", id |-> "1.2.90"] }

KnownAccounts == {a.name : a \in Accounts}

Account(name) == CHOOSE a \in Accounts : a.name = name

AccountIds == {a.id : a \in Accounts}

\* Python truth value of an argument
Truthy(v) ==
    /\ v.type # "None"
    /\ v.type = "str" => v.str # ""

Str(s) == [type |-> "str", str |-> s]

\* ------------------------------------------------------------------------
\* Numbers, Amount and Price objects
\* ------------------------------------------------------------------------
\* a number written num / 10^scale, e.g. 0.57 is num 57, scale 2
Number(n, d) == [type |-> "number", num |-> n, scale |-> d]

\* the prices and the amounts the calls are tried with
PriceNumbers == {Number(300, 0), Number(57, 2)}

AmountNumbers == {Number(10, 0), Number(57, 2)}

Numbers == PriceNumbers \cup AmountNumbers

\* the float a number literal denotes
FloatOf == [x \in Numbers |-> FDiv(FFromNat(x.num), FFromNat(Pow10(x.scale)))]

\* Amount(amount, asset)
Amount(x, symbol) == [type |-> "Amount", amount |-> x, asset |-> symbol]

\* float(amount)
AmountFloat(a) == FloatOf[a.amount]

\* a Price object: base amount per quote amount
Price(b, q) == [type |-> "Price", base |-> b, quote |-> q]

\* price.invert()
Invert(p) == Price(p.quote, p.base)

\* float(price)
PriceFloat(p) ==
    IF p.type = "Price"
    THEN FDiv(AmountFloat(p.base), AmountFloat(p.quote))
    ELSE FloatOf[p]

\* ------------------------------------------------------------------------
\* Market.__init__
\* ------------------------------------------------------------------------
\* the character class of re.split("[/-:]", ...): the range from "/" to ":"
IsSplitChar(c) == 47 <= c /\ c <= 58

\* re.split("[/-:]", s)
RECURSIVE ReSplit(_)
ReSplit(s) ==
    IF \A i \in 1..Len(s) : ~IsSplitChar(s[i]) THEN <<s>>
    ELSE LET i == CHOOSE k \in 1..Len(s) :
                      IsSplitChar(s[k]) /\ \A j \in 1..(k - 1) : ~IsSplitChar(s[j])
         IN  <<SubSeq(s, 1, i - 1)>> \o ReSplit(SubSeq(s, i + 1, Len(s)))

Chars(s) == [type |-> "str", chars |-> s]

\* the separators tried: "-", "/", ":" and, as a non-separator, "_"
SeparatorsTried == {45, 47, 58, 95}

SymbolsTried == KnownSymbols \cup {<<88, 88>>}

\* market specifier strings: QUOTE<sep>BASE, a bare symbol, three parts
SpecifierStrings ==
    {q \o <<c>> \o b : q \in SymbolsTried, c \in SeparatorsTried, b \in SymbolsTried}
    \cup SymbolsTried
    \cup {USD \o <<47>> \o BTS \o <<47>> \o CNY, <<>>}

AssetArgs == {None} \cup Assets

\* positional arguments: none, one string, one asset, two strings
PositionalArgs ==
    {<<>>}
    \cup {<<Chars(s)>> : s \in SpecifierStrings}
    \cup {<<a>> : a \in Assets}
    \cup {<<Chars(USD), Chars(BTS)>>}

PairMarket(q, b) == [kind |-> "pair", quote |-> q, base |-> b]

EmptyMarket == [kind |-> "empty", quote |-> None, base |-> None]

NoMarket == [kind |-> "none", quote |-> None, base |-> None]

\* the constructor's outcome: the object (NoMarket when it raises), the
\* asset lookups made and the exception
MarketInit(pos, base, quote) ==
    IF Len(pos) = 1 /\ pos[1].type = "str"
    THEN LET parts == ReSplit(pos[1].chars)
         IN  IF Len(parts) # 2
             THEN [market |-> NoMarket, trace |-> <<>>,
                   error |-> "ValueError: unpack"]
             ELSE IF parts[1] \notin KnownSymbols
             THEN [market |-> NoMarket,
                   trace |-> <<[call |-> "Asset", symbol |-> parts[1]]>>,
                   error |-> "AssetDoesNotExistsException"]
             ELSE IF parts[2] \notin KnownSymbols
             THEN [market |-> NoMarket,
                   trace |-> <<[call |-> "Asset", symbol |-> parts[1]],
                               [call |-> "Asset", symbol |-> parts[2]]>>,
                   error |-> "AssetDoesNotExistsException"]
             ELSE [market |-> PairMarket(Asset(parts[1]), Asset(parts[2])),
                   trace |-> <<[call |-> "Asset", symbol |-> parts[1]],
                               [call |-> "Asset", symbol |-> parts[2]]>>,
                   error |-> "none"]
    ELSE IF Len(pos) = 0 /\ Truthy(base) /\ Truthy(quote)
    THEN [market |-> PairMarket(quote, base), trace |-> <<>>, error |-> "none"]
    ELSE [market |-> EmptyMarket, trace |-> <<>>, error |-> "none"]

Market_init ==
    /\ op = "none"
    /\ \E pos \in PositionalArgs, base \in AssetArgs, quote \in AssetArgs :
       \E r \in {MarketInit(pos, base, quote)} :
           /\ market' = r.market
           /\ op' = "Market"
           /\ args' = [args |-> pos, base |-> base, quote |-> quote]
           /\ trace' = r.trace
           /\ error' = r.error
           /\ result' = None
           /\ UNCHANGED config

\* ------------------------------------------------------------------------
\* Account defaulting, shared by buy, sell, accounttrades, accountopenorders
\* ------------------------------------------------------------------------
\* a variant that never reads the configuration
DefaultAccountIgnoringConfig(account, cfg) == account

\* if not account: if "default_account" in config: account = config[...]
DefaultAccount(account, cfg) ==
    IF ~Truthy(account) /\ cfg.present THEN Str(cfg.value) ELSE account

AccountArgs == {None, Str("alice"), Str("ghost")}

Configs ==
    { [present |-> FALSE, value |-> ""],
      [present |-> TRUE, value |-> ""],
      [present |-> TRUE, value |-> "init0"] }

\* the steps every account-scoped call starts with: the exception raised
\* ("none" to go on), the account lookups made
ResolveAccount(account, cfg) ==
    LET a == DefaultAccount(account, cfg)
    IN  IF ~Truthy(a)
        THEN [error |-> "ValueError: You need to provide an account",
              trace |-> <<>>, account |-> None]
        ELSE IF a.str \notin KnownAccounts
        THEN [error |-> "AccountDoesNotExistsException",
              trace |-> <<[call |-> "Account", name |-> a.str]>>,
              account |-> None]
        ELSE [error |-> "none",
              trace |-> <<[call |-> "Account", name |-> a.str]>>,
              account |-> Account(a.str)]

\* ------------------------------------------------------------------------
\* buy and sell
\* ------------------------------------------------------------------------
\* Price objects: 300 of one asset per 0.57 of another
PriceObjects ==
    { Price(Amount(Number(300, 0), b), Amount(Number(57, 2), q)) :
          b \in KnownSymbols, q \in KnownSymbols }

PriceArgs == PriceNumbers \cup PriceObjects

AmountObjects == {Amount(Number(57, 2), s) : s \in KnownSymbols}

AmountArgs == AmountNumbers \cup AmountObjects

ReturnOrderIdArgs ==
    {[type |-> "bool", bool |-> FALSE], [type |-> "bool", bool |-> TRUE],
     Str("head"), Str("irreversible")}

\* a variant that takes every given value, False included, as set
ReturnOrderIdGiven(r) == r.type \in {"bool", "str"}

\* if returnOrderId:
ReturnOrderIdSet(r) == IF r.type = "bool" THEN r.bool ELSE r.str # ""

\* a variant that waits for the head block whenever returnOrderId is set
WaitModeByTruth(r) == IF ReturnOrderIdSet(r) THEN "head" ELSE "irreversible"

\* mode=("head" if returnOrderId == "head" else "irreversible")
WaitMode(r) == IF r = Str("head") THEN "head" ELSE "irreversible"

\* a variant that accepts the inverted orientation without inverting
OrientPriceNoInvert(m, price) ==
    IF price.type # "Price" THEN [error |-> "none", price |-> price]
    ELSE IF \/ /\ price.quote.asset = m.quote.symbol
               /\ price.base.asset = m.base.symbol
            \/ /\ price.base.asset = m.quote.symbol
               /\ price.quote.asset = m.base.symbol
    THEN [error |-> "none", price |-> price]
    ELSE [error |-> "ValueError: The assets in the price do not match the market!",
          price |-> price]

\* the price as the order uses it: "none" error to go on
OrientPrice(m, price) ==
    IF price.type # "Price" THEN [error |-> "none", price |-> price]
    ELSE IF /\ price.quote.asset = m.quote.symbol
            /\ price.base.asset = m.base.symbol
    THEN [error |-> "none", price |-> price]
    ELSE IF /\ price.base.asset = m.quote.symbol
            /\ price.quote.asset = m.base.symbol
    THEN [error |-> "none", price |-> Invert(price)]
    ELSE [error |-> "ValueError: The assets in the price do not match the market!",
          price |-> price]

\* a variant without the assertion on the amount's asset
QuoteAmountUnchecked(m, amount) ==
    IF amount.type = "Amount"
    THEN [error |-> "none", amount |-> amount]
    ELSE [error |-> "none", amount |-> Amount(amount, m.quote.symbol)]

\* the amount as the order uses it
QuoteAmount(m, amount) ==
    IF amount.type = "Amount"
    THEN [error |-> IF amount.asset = m.quote.symbol THEN "none"
                    ELSE "AssertionError",
          amount |-> amount]
    ELSE [error |-> "none", amount |-> Amount(amount, m.quote.symbol)]

Precisions == {a.precision : a \in Assets}

\* the prices an order can be computed from: as passed, or inverted
Prices == PriceArgs \cup {Invert(p) : p \in PriceObjects}

\* int(float(amount) * float(price) * 10 ** precision), computed once for
\* every precision, price and amount
AmountTimesPrice ==
    [precision \in Precisions |-> [price \in Prices |-> [x \in AmountNumbers |->
        FTrunc(FMul(FMul(FloatOf[x], PriceFloat(price)),
                    FFromNat(Pow10(precision))))]]]

\* int(float(amount) * 10 ** precision), computed once for every precision
\* and amount
AmountUnits ==
    [precision \in Precisions |-> [x \in AmountNumbers |->
        FTrunc(FMul(FloatOf[x], FFromNat(Pow10(precision))))]]

\* int(float(amount) * float(price) * 10 ** self["base"]["precision"])
BaseUnits(m, price, amount) ==
    AmountTimesPrice[m.base.precision][price][amount.amount]

\* int(float(amount) * 10 ** self["quote"]["precision"])
QuoteUnits(m, amount) == AmountUnits[m.quote.precision][amount.amount]

Expiration == 7 * 24 * 60 * 60

BuyOrder(m, account, price, amount, killfill) ==
    [ fee            |-> [amount |-> 0, asset_id |-> "1.3.0"],
      seller         |-> account.id,
      amount_to_sell |-> [amount   |-> BaseUnits(m, price, amount),
                          asset_id |-> m.base.id],
      min_to_receive |-> [amount   |-> QuoteUnits(m, amount),
                          asset_id |-> m.quote.id],
      expiration     |-> Expiration,
      fill_or_kill   |-> killfill ]

SellOrder(m, account, price, amount, killfill) ==
    [ fee            |-> [amount |-> 0, asset_id |-> "1.3.0"],
      seller         |-> account.id,
      amount_to_sell |-> [amount   |-> QuoteUnits(m, amount),
                          asset_id |-> m.quote.id],
      min_to_receive |-> [amount   |-> BaseUnits(m, price, amount),
                          asset_id |-> m.base.id],
      expiration     |-> Expiration,
      fill_or_kill   |-> killfill ]

\* the order id the chain assigned, reported by the confirmed transaction
OrderIds == {"1.7.1"}

NoTx == [type |-> "None"]

\* the steps of buy and sell up to the order: account, price, amount
\* side is "buy" or "sell"
PrepareOrder(side, m, cfg, price, amount, killfill, account) ==
    LET acc == ResolveAccount(account, cfg)
    IN  IF acc.error # "none"
        THEN [error |-> acc.error, trace |-> acc.trace, order |-> NoTx,
              name |-> ""]
        ELSE IF m.kind # "pair"
        THEN [error |-> "KeyError", trace |-> acc.trace, order |-> NoTx,
              name |-> ""]
        ELSE LET p == OrientPrice(m, price)
                 a == QuoteAmount(m, amount)
             IN  IF p.error # "none"
                 THEN [error |-> p.error, trace |-> acc.trace, order |-> NoTx,
                       name |-> ""]
                 ELSE IF a.error # "none"
                 THEN [error |-> a.error, trace |-> acc.trace, order |-> NoTx,
                       name |-> ""]
                 ELSE [error |-> "none", trace |-> acc.trace,
                       name |-> acc.account.name,
                       order |-> IF side = "buy"
                                 THEN BuyOrder(m, acc.account, p.price, a.amount, killfill)
                                 ELSE SellOrder(m, acc.account, p.price, a.amount, killfill)]

\* buy and sell from the order on: finalizeOp, then the optional wait for
\* confirmation. The collaborators either answer or raise.
PlaceOrder(side, price, amount, killfill, account, returnOrderId) ==
    \E prep \in {PrepareOrder(side, market, config, price, amount, killfill, account)} :
    LET fin  == [call |-> "finalizeOp", order |-> prep.order,
                 account |-> prep.name,
                 permission |-> "active"]
        wait == [call |-> "awaitTxConfirmation",
                 mode |-> WaitMode(returnOrderId)]
        tx   == [type |-> "tx", operations |-> <<prep.order>>, orderid |-> "absent"]
    IN  /\ op' = side
        /\ args' = [price |-> price, amount |-> amount, killfill |-> killfill,
                    account |-> account, returnOrderId |-> returnOrderId]
        /\ IF prep.error # "none"
           THEN /\ trace' = prep.trace
                /\ error' = prep.error
                /\ result' = NoTx
           ELSE \/ /\ trace' = Append(prep.trace, fin)
                   /\ error' = "finalizeOp raised"
                   /\ result' = NoTx
                \/ /\ ~ReturnOrderIdSet(returnOrderId)
                   /\ trace' = Append(prep.trace, fin)
                   /\ error' = "none"
                   /\ result' = tx
                \/ /\ ReturnOrderIdSet(returnOrderId)
                   /\ trace' = prep.trace \o <<fin, wait>>
                   /\ error' = "awaitTxConfirmation raised"
                   /\ result' = NoTx
                \/ /\ ReturnOrderIdSet(returnOrderId)
                   /\ trace' = prep.trace \o <<fin, wait>>
                   /\ error' = "none"
                   /\ \E oid \in OrderIds : result' = [tx EXCEPT !.orderid = oid]
        /\ UNCHANGED <<config, market>>

buy ==
    /\ op = "none"
    /\ market.kind # "none"
    /\ \E price \in PriceArgs, amount \in AmountArgs, killfill \in BOOLEAN,
          account \in AccountArgs, returnOrderId \in ReturnOrderIdArgs :
           PlaceOrder("buy", price, amount, killfill, account, returnOrderId)

sell ==
    /\ op = "none"
    /\ market.kind # "none"
    /\ \E price \in PriceArgs, amount \in AmountArgs, killfill \in BOOLEAN,
          account \in AccountArgs, returnOrderId \in ReturnOrderIdArgs :
           PlaceOrder("sell", price, amount, killfill, account, returnOrderId)

\* ------------------------------------------------------------------------
\* ticker
\* ------------------------------------------------------------------------
\* the bitasset object rpc.get_object answers with
BitassetObjects ==
    { [short_backing_asset |-> b, settlement_price |-> "feed"] : b \in AssetIds }

BitassetDataId(asset) == [bitasset_data_id |-> asset.id]

NoEntries == [k \in {} |-> "absent"]

\* rpc.get_object(asset["bitasset_data_id"]) and the node's answer
GetObject(asset, bitasset) ==
    [call |-> "get_object", id |-> BitassetDataId(asset), answer |-> bitasset]

\* a variant that does not compare the backing asset with the other side
SettlementUnchecked(m, bitasset) ==
    IF m.quote.bitasset
    THEN [trace |-> <<GetObject(m.quote, bitasset)>>,
          data  |-> "quoteSettlement_price" :> bitasset.settlement_price]
    ELSE IF m.base.bitasset
    THEN [trace |-> <<GetObject(m.base, bitasset)>>,
          data  |-> "base_settlement_price" :> bitasset.settlement_price]
    ELSE [trace |-> <<>>, data |-> NoEntries]

\* the "smartcoin stuff": the settlement entries of the ticker and the
\* get_object request made, for the bitasset object the node answers with
Settlement(m, bitasset) ==
    IF m.quote.bitasset
    THEN [trace |-> <<GetObject(m.quote, bitasset)>>,
          data  |-> IF bitasset.short_backing_asset = m.base.id
                    THEN "quoteSettlement_price" :> bitasset.settlement_price
                    ELSE NoEntries]
    ELSE IF m.base.bitasset
    THEN [trace |-> <<GetObject(m.base, bitasset)>>,
          data  |-> IF bitasset.short_backing_asset = m.quote.id
                    THEN "base_settlement_price" :> bitasset.settlement_price
                    ELSE NoEntries]
    ELSE [trace |-> <<>>, data |-> NoEntries]

\* the returned dictionary
TickerData(m, bitasset) ==
    ("core_exchange_rate" :> "cer")
    @@ Settlement(m, bitasset).data
    @@ [k \in {"base_volume", "quote_volume", "low", "high", "last",
               "percent_change"} |-> "ticker"]
    @@ ("base_id" :> <<m.base.id>>)
    @@ ("base_symbol" :> m.base.symbol)
    @@ ("quote_id" :> m.quote.id)
    @@ ("quote_symbol" :> m.quote.symbol)

ticker ==
    /\ op = "none"
    /\ market.kind # "none"
    /\ op' = "ticker"
    /\ args' = None
    /\ IF market.kind # "pair"
       THEN /\ trace' = <<>>
            /\ error' = "KeyError"
            /\ result' = NoEntries
       ELSE \E bitasset \in BitassetObjects :
            /\ trace' = Append(Settlement(market, bitasset).trace,
                               [call |-> "get_ticker", base |-> market.base.id,
                                quote |-> market.quote.id])
            /\ error' = "none"
            /\ result' = TickerData(market, bitasset)
    /\ UNCHANGED <<config, market>>

\* ------------------------------------------------------------------------
\* accounttrades
\* ------------------------------------------------------------------------
MaxLimit == 2

\* the pages get_fill_order_history can answer a request for n entries with
RECURSIVE FillSeqs(_)
FillSeqs(n) ==
    IF n = 0 THEN {<<>>}
    ELSE LET shorter == FillSeqs(n - 1)
         IN  shorter \cup
             { Append(s, [id |-> Len(s) + 1, op |-> [account_id |-> a]]) :
                   s \in {t \in shorter : Len(t) = n - 1}, a \in AccountIds }

\* [f for f in filled if f["op"]["account_id"] == account["id"]]
RECURSIVE FilterFills(_, _)
FilterFills(filled, id) ==
    IF filled = <<>> THEN <<>>
    ELSE IF Head(filled).op.account_id = id
    THEN <<Head(filled)>> \o FilterFills(Tail(filled), id)
    ELSE FilterFills(Tail(filled), id)

FilledOrder(f, m) == [fill |-> f, base |-> m.base.id, quote |-> m.quote.id]

AccountTrades(m, account, filled) ==
    LET mine == FilterFills(filled, account.id)
    IN  [i \in 1..Len(mine) |-> FilledOrder(mine[i], m)]

accounttrades ==
    /\ op = "none"
    /\ market.kind # "none"
    /\ \E account \in AccountArgs, limit \in 1..MaxLimit :
       \E acc \in {ResolveAccount(account, config)} :
           /\ op' = "accounttrades"
           /\ args' = [account |-> account, limit |-> limit]
           /\ IF acc.error # "none"
              THEN /\ trace' = acc.trace
                   /\ error' = acc.error
                   /\ result' = <<>>
              ELSE IF market.kind # "pair"
              THEN /\ trace' = acc.trace
                   /\ error' = "KeyError"
                   /\ result' = <<>>
              ELSE \E filled \in FillSeqs(2 * limit) :
                   /\ trace' = Append(acc.trace,
                                      [call |-> "get_fill_order_history",
                                       base |-> market.base.id,
                                       quote |-> market.quote.id,
                                       limit |-> 2 * limit,
                                       answer |-> filled])
                   /\ error' = "none"
                   /\ result' = AccountTrades(market, acc.account, filled)
           /\ UNCHANGED <<config, market>>

\* ------------------------------------------------------------------------
\* accountopenorders
\* ------------------------------------------------------------------------
\* limit orders of the account as the node reports them
LimitOrder(id, b, bAmount, q, qAmount) ==
    [ id |-> id,
      sell_price |-> [base  |-> [asset_id |-> b, amount |-> bAmount],
                      quote |-> [asset_id |-> q, amount |-> qAmount]],
      expiration |-> "2030-01-01T00:00:00" ]

LimitOrders ==
    { LimitOrder("1.7.1", b, 30000000, q, 5700) : b \in AssetIds, q \in AssetIds }

LimitOrderLists ==
    {<<>>}
    \cup {<<o>> : o \in LimitOrders}
    \cup {<<LimitOrder("1.7.1", "1.3.0", 30000000, "1.3.121", 5700),
            LimitOrder("1.7.2", "1.3.121", 5700, "1.3.0", 30000000)>>}

InMarket(m, order) ==
    \/ /\ order.sell_price.base.asset_id = m.base.id
       /\ order.sell_price.quote.asset_id = m.quote.id
    \/ /\ order.sell_price.base.asset_id = m.quote.id
       /\ order.sell_price.quote.asset_id = m.base.id

\* float(amount) / 10 ** precision
Scaled(amount, precision) == FDiv(FFromNat(amount), FFromNat(Pow10(precision)))

\* the entry reported for an order of the market
OpenOrder(m, order) ==
    LET sells_base == order.sell_price.base.asset_id = m.base.id
        base_amt   == Scaled(order.sell_price.base.amount,
                             IF sells_base THEN m.base.precision
                             ELSE m.quote.precision)
        quote_amt  == Scaled(order.sell_price.quote.amount,
                             IF sells_base THEN m.quote.precision
                             ELSE m.base.precision)
    IN  [ type   |-> IF sells_base THEN "buy" ELSE "sell",
          price  |-> IF sells_base THEN FDiv(base_amt, quote_amt)
                     ELSE FDiv(quote_amt, base_amt),
          amount |-> IF sells_base THEN quote_amt ELSE base_amt,
          orderid |-> order.id,
          status |-> "open",
          expiry_datetime |-> order.expiration,
          base_id |-> m.base.id,
          base_symbol |-> m.base.symbol,
          quote_id |-> m.quote.id,
          quote_symbol |-> m.quote.symbol ]

\* OpenOrder, computed once for every market and order
OpenOrderOf ==
    [m \in {PairMarket(q, b) : q \in Assets, b \in Assets} |->
        [order \in {o \in UNION {{l[i] : i \in 1..Len(l)} : l \in LimitOrderLists} :
                        InMarket(m, o)} |->
            OpenOrder(m, order)]]

RECURSIVE OpenOrders(_, _)
OpenOrders(m, orders) ==
    IF orders = <<>> THEN <<>>
    ELSE IF InMarket(m, Head(orders))
    THEN <<OpenOrderOf[m][Head(orders)]>> \o OpenOrders(m, Tail(orders))
    ELSE OpenOrders(m, Tail(orders))

accountopenorders ==
    /\ op = "none"
    /\ market.kind # "none"
    /\ \E account \in AccountArgs :
       \E acc \in {ResolveAccount(account, config)} :
           /\ op' = "accountopenorders"
           /\ args' = [account |-> account]
           /\ IF acc.error # "none"
              THEN /\ trace' = acc.trace
                   /\ error' = acc.error
                   /\ result' = <<>>
              ELSE \E orders \in LimitOrderLists :
                   /\ trace' = acc.trace
                   /\ IF market.kind # "pair" /\ orders # <<>>
                      THEN /\ error' = "KeyError"
                           /\ result' = <<>>
                      ELSE /\ error' = "none"
                           /\ result' = IF orders = <<>> THEN <<>>
                                        ELSE OpenOrders(market, orders)
           /\ UNCHANGED <<config, market>>

\* ------------------------------------------------------------------------
\* cancel
\* ------------------------------------------------------------------------
OrderNumbers == {"1.7.1", "1.7.404"}

\* what bitshares.cancel answers with: a transaction, or an exception
\* (raised names it, "none" when the collaborator returned)
CancelAnswers(orderNumber) ==
    { [raised |-> "none", tx |-> [type |-> "tx", cancelled |-> orderNumber]],
      [raised |-> "cancel raised: order does not exist", tx |-> NoTx],
      [raised |-> "cancel raised: missing key", tx |-> NoTx] }

\* self.bitshares.cancel(orderNumber, account=account) and its answer
CancelCall(orderNumber, account, answer) ==
    [call |-> "cancel", orderNumber |-> orderNumber, account |-> account,
     answer |-> answer]

\* a variant that calls the collaborator once more after it raised
CancelRetrying(orderNumber, account, answer) ==
    [trace  |-> IF answer.raised # "none"
                THEN <<CancelCall(orderNumber, account, answer),
                       CancelCall(orderNumber, account, answer)>>
                ELSE <<CancelCall(orderNumber, account, answer)>>,
     error  |-> answer.raised,
     result |-> answer.tx]

\* return self.bitshares.cancel(orderNumber, account=account)
Cancel(orderNumber, account, answer) ==
    [trace  |-> <<CancelCall(orderNumber, account, answer)>>,
     error  |-> answer.raised,
     result |-> answer.tx]

cancel ==
    /\ op = "none"
    /\ market.kind # "none"
    /\ \E orderNumber \in OrderNumbers, account \in AccountArgs :
       \E answer \in CancelAnswers(orderNumber) :
       \E r \in {Cancel(orderNumber, account, answer)} :
           /\ op' = "cancel"
           /\ args' = [orderNumber |-> orderNumber, account |-> account]
           /\ trace' = r.trace
           /\ error' = r.error
           /\ result' = r.result
           /\ UNCHANGED <<config, market>>

\* ------------------------------------------------------------------------
\* The call returns (or its exception propagates) to the caller: calls are
\* synchronous and do not overlap
\* ------------------------------------------------------------------------
Return ==
    /\ op # "none"
    /\ op' = "none"
    /\ args' = None
    /\ trace' = <<>>
    /\ error' = "none"
    /\ result' = None
    /\ UNCHANGED <<config, market>>

\* ------------------------------------------------------------------------
\* The program
\* ------------------------------------------------------------------------
Init ==
    /\ config \in Configs
    /\ market = NoMarket
    /\ op = "none"
    /\ args = None
    /\ trace = <<>>
    /\ error = "none"
    /\ result = None

Next ==
    \/ Market_init
    \/ ticker
    \/ accounttrades
    \/ accountopenorders
    \/ buy
    \/ sell
    \/ cancel
    \/ Return

Spec == Init /\ [][Next]_vars


\* ------------------------------------------------------------------------
\* Properties
\* ------------------------------------------------------------------------
\* positions of the trace where an order was handed to finalizeOp
FinalizeCalls == {i \in 1..Len(trace) : trace[i].call = "finalizeOp"}

\* the call is a buy or a sell that got as far as handing over its order
OrderSubmitted(side) == op = side /\ FinalizeCalls # {}

\* the number passed as the amount, plain or inside an Amount object
AmountNumber == IF args.amount.type = "Amount" THEN args.amount.amount ELSE args.amount

\* the constructor was given one string made of two known symbols and sep
GivenSpecifier(q, sep, b) ==
    /\ op = "Market"
    /\ args.args = <<Chars(q \o <<sep>> \o b)>>

\* C1: for every specifier string Q<sep>B of two asset symbols with <sep>
\* one of "/", "-", ":", the constructor succeeds and the market's quote is
\* asset(Q) and its base asset(B).
C1_SplitsOnEverySeparator ==
    \A q \in KnownSymbols, b \in KnownSymbols, sep \in {47, 45, 58} :
        GivenSpecifier(q, sep, b) =>
            /\ error = "none"
            /\ market = PairMarket(Asset(q), Asset(b))

\* C1, the separators the character class does hold: "USD/BTS" gives quote
\* USD and base BTS
C1_SlashSplits ==
    /\ GivenSpecifier(USD, 47, BTS)
    /\ error = "none"
    /\ market = PairMarket(Asset(USD), Asset(BTS))

\* C2: for a decimal price p and a quote amount a, buy submits
\* amount_to_sell = a * p * 10^(base precision) in the base asset and
\* min_to_receive = a * 10^(quote precision) in the quote asset (stated
\* without fractions: both sides multiplied by the numbers' scales).
C2_BuyAmountsExact ==
    (OrderSubmitted("buy") /\ args.price.type = "number") =>
        \A i \in FinalizeCalls :
            /\ trace[i].order.amount_to_sell.asset_id = market.base.id
            /\ trace[i].order.min_to_receive.asset_id = market.quote.id
            /\ trace[i].order.amount_to_sell.amount
                   * Pow10(args.price.scale + AmountNumber.scale)
               = AmountNumber.num * args.price.num * Pow10(market.base.precision)
            /\ trace[i].order.min_to_receive.amount * Pow10(AmountNumber.scale)
               = AmountNumber.num * Pow10(market.quote.precision)

\* C2, the example: in USD/BTS, buy at 300 an amount of 10 submits
\* amount_to_sell 300000000 BTS units and min_to_receive 100000 USD units
C2_Example ==
    /\ OrderSubmitted("buy")
    /\ market = PairMarket(Asset(USD), Asset(BTS))
    /\ args.price = Number(300, 0)
    /\ args.amount = Number(10, 0)
    /\ \A i \in FinalizeCalls :
           /\ trace[i].order.amount_to_sell = [amount |-> 300000000, asset_id |-> "1.3.0"]
           /\ trace[i].order.min_to_receive = [amount |-> 100000, asset_id |-> "1.3.121"]

\* C3: for a decimal price p and a quote amount a, sell submits
\* amount_to_sell = a * 10^(quote precision) in the quote asset and
\* min_to_receive = a * p * 10^(base precision) in the base asset, the two
\* fields of buy exchanged.
C3_SellAmountsExact ==
    (OrderSubmitted("sell") /\ args.price.type = "number") =>
        \A i \in FinalizeCalls :
            /\ trace[i].order.amount_to_sell.asset_id = market.quote.id
            /\ trace[i].order.min_to_receive.asset_id = market.base.id
            /\ trace[i].order.amount_to_sell.amount * Pow10(AmountNumber.scale)
               = AmountNumber.num * Pow10(market.quote.precision)
            /\ trace[i].order.min_to_receive.amount
                   * Pow10(args.price.scale + AmountNumber.scale)
               = AmountNumber.num * args.price.num * Pow10(market.base.precision)

\* C3, the part that holds: sell's (amount_to_sell, min_to_receive) is buy's
\* (min_to_receive, amount_to_sell) for the same market, price and amount
C3_SellMirrorsBuy ==
    /\ OrderSubmitted("sell")
    /\ args.price = Number(57, 2)
    /\ args.amount = Number(10, 0)
    /\ \A i \in FinalizeCalls :
           /\ trace[i].order.amount_to_sell
              = BuyOrder(market, Account(trace[1].name), args.price,
                         Amount(args.amount, market.quote.symbol),
                         args.killfill).min_to_receive
           /\ trace[i].order.min_to_receive
              = BuyOrder(market, Account(trace[1].name), args.price,
                         Amount(args.amount, market.quote.symbol),
                         args.killfill).amount_to_sell

\* the Price object passed has the market's quote as its base and the
\* market's base as its quote, and not the market's own orientation as well
InvertedPriceGiven ==
    /\ op \in {"buy", "sell"}
    /\ market.kind = "pair"
    /\ args.price.type = "Price"
    /\ args.price.base.asset = market.quote.symbol
    /\ args.price.quote.asset = market.base.symbol
    /\ market.quote.symbol # market.base.symbol

\* C4: given a Price object in the inverted orientation, buy and sell submit
\* the order they submit for the correctly oriented price (the inverse) and
\* the same amount: the same amount_to_sell and min_to_receive.
C4_InvertedPriceSameOrder ==
    (InvertedPriceGiven /\ FinalizeCalls # {}) =>
        \A i \in FinalizeCalls :
            trace[i].order =
                PrepareOrder(op, market, config, Invert(args.price), args.amount,
                             args.killfill, args.account).order

\* C4: an order was submitted for a price given in the inverted orientation
C4_InvertedPriceSubmitted ==
    /\ InvertedPriceGiven
    /\ FinalizeCalls # {}
    /\ error = "none"

\* the Price object passed is in neither orientation of the market
PriceMismatch ==
    /\ args.price.type = "Price"
    /\ ~ /\ args.price.quote.asset = market.quote.symbol
         /\ args.price.base.asset = market.base.symbol
    /\ ~ /\ args.price.base.asset = market.quote.symbol
         /\ args.price.quote.asset = market.base.symbol

\* the Amount object passed is not in the market's quote asset
AmountMismatch ==
    /\ args.amount.type = "Amount"
    /\ args.amount.asset # market.quote.symbol

MismatchGiven ==
    /\ op \in {"buy", "sell"}
    /\ market.kind = "pair"
    /\ PriceMismatch \/ AmountMismatch

MismatchErrors ==
    {"ValueError: The assets in the price do not match the market!", "AssertionError"}

AccountErrors ==
    {"ValueError: You need to provide an account", "AccountDoesNotExistsException"}

\* C5 as stated: a mismatching Price or Amount object makes buy and sell
\* raise an asset-mismatch error, and finalizeOp is not called.
C5_MismatchRaisesMismatchError ==
    MismatchGiven => (error \in MismatchErrors /\ FinalizeCalls = {})

\* C5, amended: a mismatching Price or Amount object makes buy and sell raise
\* without calling finalizeOp; the error raised is the asset-mismatch error
\* when the account resolves, the account's error otherwise.
C5_MismatchNeverSubmitted ==
    MismatchGiven =>
        /\ FinalizeCalls = {}
        /\ error \in MismatchErrors \cup AccountErrors
        /\ error \in AccountErrors
               <=> DefaultAccount(args.account, config) \notin {Str(n) : n \in KnownAccounts}

\* C5: a call with a mismatching object raised the asset-mismatch error
C5_MismatchRaised ==
    /\ MismatchGiven
    /\ error \in MismatchErrors
    /\ trace = <<[call |-> "Account", name |-> "alice"]>>

AccountScoped == {"buy", "sell", "accounttrades", "accountopenorders"}

\* C6: in buy, sell, accounttrades and accountopenorders, without an account
\* argument and without a configured default_account the call raises the
\* missing-account error before any collaborator is called; without an
\* account argument and with a default_account configured, the configured
\* account is the one looked up and the one the order is placed for.
C6_MissingAccountOrDefault ==
    (op \in AccountScoped /\ ~Truthy(args.account)) =>
        /\ ~config.present =>
               /\ error = "ValueError: You need to provide an account"
               /\ trace = <<>>
        /\ (config.present /\ config.value # "") =>
               /\ trace # <<>>
               /\ trace[1] = [call |-> "Account", name |-> config.value]
               /\ \A i \in 2..Len(trace) : trace[i].call # "Account"
               /\ \A i \in FinalizeCalls :
                      /\ trace[i].account = config.value
                      /\ trace[i].order.seller = Account(config.value).id

\* C6: a call without an account and without a default raised
C6_MissingAccountRaised ==
    /\ op \in AccountScoped
    /\ ~Truthy(args.account)
    /\ ~config.present
    /\ error = "ValueError: You need to provide an account"

\* C7: a construction that is given neither one string nor, without
\* positional arguments, both base and quote raises; no Market without base
\* and quote is produced.
C7_InvalidFormsRejected ==
    /\ market.kind # "empty"
    /\ (/\ op = "Market"
        /\ ~(Len(args.args) = 1 /\ args.args[1].type = "str")
        /\ ~(Len(args.args) = 0 /\ args.base.type = "Asset" /\ args.quote.type = "Asset"))
       => error # "none"

\* C8: accounttrades returns only fills of the resolved account, in the
\* order of the page, and at most limit of them.
C8_OnlyAccountFillsAtMostLimit ==
    (op = "accounttrades" /\ error = "none") =>
        /\ \A i \in 1..Len(result) :
               /\ result[i].fill.op.account_id = Account(trace[1].name).id
               /\ result[i].fill \in {trace[2].answer[j] : j \in 1..Len(trace[2].answer)}
        /\ \A i \in 1..Len(result), j \in 1..Len(result) :
               i < j => result[i].fill.id < result[j].fill.id
        /\ Len(result) <= args.limit

\* C8, the part that holds: every fill of the account in the page is
\* returned, and nothing else
C8_AllAccountFillsReturned ==
    /\ op = "accounttrades"
    /\ error = "none"
    /\ Len(result) > args.limit
    /\ \A j \in 1..Len(trace[2].answer) :
           trace[2].answer[j].op.account_id = Account(trace[1].name).id
               => \E i \in 1..Len(result) : result[i].fill = trace[2].answer[j]

\* finalizeOp returned: the order is signed and broadcast
Broadcast == FinalizeCalls # {} /\ error # "finalizeOp raised"

\* C9 as stated: whenever buy or sell raises, no order has been broadcast.
C9_RaisesOnlyBeforeBroadcast ==
    (op \in {"buy", "sell"} /\ error # "none") => ~Broadcast

\* C9, amended: when buy or sell raises, no order has been broadcast unless
\* the error comes from the wait for confirmation, which happens only with
\* returnOrderId set and after finalizeOp returned.
C9_RaisesAfterBroadcastOnlyFromWait ==
    (op \in {"buy", "sell"} /\ error # "none") =>
        IF error = "awaitTxConfirmation raised"
        THEN /\ args.returnOrderId \in ReturnOrderIdArgs \ {[type |-> "bool", bool |-> FALSE]}
             /\ Len(trace) >= 2
             /\ trace[Len(trace)].call = "awaitTxConfirmation"
             /\ trace[Len(trace) - 1].call = "finalizeOp"
        ELSE ~Broadcast

\* C9: the wait for confirmation failed after the order was broadcast
C9_WaitFailedAfterBroadcast ==
    /\ op = "buy"
    /\ error = "awaitTxConfirmation raised"
    /\ Broadcast

SettlementFields == {"quoteSettlement_price", "base_settlement_price"}

\* C10: the ticker holds a settlement price only for an asset of the market
\* that has bitasset data and whose short backing asset is the market's
\* other asset, and never both settlement prices.
C10_SettlementOnlyWhenBacked ==
    (op = "ticker" /\ error = "none") =>
        /\ Cardinality(DOMAIN result \cap SettlementFields) <= 1
        /\ "quoteSettlement_price" \in DOMAIN result =>
               /\ market.quote.bitasset
               /\ trace[1] = GetObject(market.quote, trace[1].answer)
               /\ trace[1].answer.short_backing_asset = market.base.id
        /\ "base_settlement_price" \in DOMAIN result =>
               /\ market.base.bitasset
               /\ trace[1] = GetObject(market.base, trace[1].answer)
               /\ trace[1].answer.short_backing_asset = market.quote.id

\* C10: a ticker with the quote's settlement price
C10_QuoteSettlementPresent ==
    /\ op = "ticker"
    /\ error = "none"
    /\ "quoteSettlement_price" \in DOMAIN result

\* the calls made to the cancellation collaborator
CancelCalls == {i \in 1..Len(trace) : trace[i].call = "cancel"}

\* C11: cancel hands the order id and the account, as given, to the
\* cancellation collaborator exactly once and calls nothing else; when the
\* collaborator raises, its error is the error of the call and no second
\* attempt is made; when it answers, its answer is returned unchanged.
C11_CancelDelegatesOnce ==
    op = "cancel" =>
        /\ Len(trace) = 1
        /\ CancelCalls = {1}
        /\ trace[1].orderNumber = args.orderNumber
        /\ trace[1].account = args.account
        /\ error = trace[1].answer.raised
        /\ result = trace[1].answer.tx
        /\ error # "none" => result = NoTx

\* C11: cancelling an order id the collaborator does not know surfaced the
\* collaborator's error after one attempt
C11_UnknownOrderSurfaced ==
    /\ op = "cancel"
    /\ args.orderNumber = "1.7.404"
    /\ error = "cancel raised: order does not exist"
    /\ Cardinality(CancelCalls) = 1

\* returnOrderId is set: it is neither False nor empty
ReturnOrderIdGivenTruthy == args.returnOrderId # [type |-> "bool", bool |-> FALSE]

\* the calls made to the confirmation watcher
WaitCalls == {i \in 1..Len(trace) : trace[i].call = "awaitTxConfirmation"}

\* C12: in buy and sell the order is handed to finalizeOp at most once and
\* before anything else is done with it; the confirmation watcher is called
\* only with returnOrderId set, right after finalizeOp, in mode "head" for
\* returnOrderId "head" and "irreversible" for every other set value; the
\* result carries an orderid only when the watcher has answered; with
\* returnOrderId not set the watcher is not called and a returned result
\* carries no orderid.
C12_FinalizeThenOptionalWait ==
    op \in {"buy", "sell"} =>
        /\ Cardinality(FinalizeCalls) <= 1
        /\ Cardinality(WaitCalls) <= 1
        /\ \A i \in WaitCalls :
               /\ ReturnOrderIdGivenTruthy
               /\ i = Len(trace)
               /\ i - 1 \in FinalizeCalls
               /\ trace[i].mode = IF args.returnOrderId = Str("head")
                                  THEN "head" ELSE "irreversible"
        /\ error = "none" =>
               /\ FinalizeCalls # {}
               /\ result.operations = << trace[CHOOSE i \in FinalizeCalls : TRUE].order >>
               /\ ReturnOrderIdGivenTruthy =>
                      (WaitCalls # {} /\ result.orderid \in OrderIds)
               /\ ~ReturnOrderIdGivenTruthy =>
                      (WaitCalls = {} /\ result.orderid = "absent")
        /\ error # "none" => result = NoTx
        /\ ~ReturnOrderIdGivenTruthy => WaitCalls = {}

\* C12: a call with returnOrderId True waited for the irreversible block
\* after finalizeOp and returned the order id
C12_WaitedIrreversible ==
    /\ op = "sell"
    /\ args.returnOrderId = [type |-> "bool", bool |-> TRUE]
    /\ error = "none"
    /\ Len(trace) = 3
    /\ trace[2].call = "finalizeOp"
    /\ trace[3] = [call |-> "awaitTxConfirmation", mode |-> "irreversible"]
    /\ result.orderid \in OrderIds
====
